---------------------------- MODULE Spec2Model ----------------------------
(***************************************************************************)
(* update_patterns.py: read quizParser.js as text, apply three literal     *)
(* replacements in sequence, write the result back, print a confirmation.  *)
(*                                                                         *)
(* File contents and the in-memory string are sequences of characters (one *)
(* one-character string per element).  The file is opened in text mode     *)
(* with the default newline handling, so reading translates line endings   *)
(* (Decode) and writing translates them back to the platform's separator   *)
(* (Encode).  UTF-8 decoding followed by UTF-8 encoding gives back the     *)
(* same bytes for every file that decodes, so characters stand for their   *)
(* encodings.                                                              *)
(***************************************************************************)
EXTENDS Naturals, Sequences, FiniteSets

\* ------------------------------------------------------------------ bounds
\* number of fragments an initial file content is made of
MaxPieces == 2
\* number of runs of the script in succession
MaxRuns == 2
\* longest prefix a failed write is seen to leave behind
MaxPartial == 1

\* ----------------------------------------------------------------- literals
CR == "\r"
LF == "\n"

\* update_patterns.py line 6, the raw string literal (56 characters)
questionNumberOld ==
    <<
       "q", "u", "e", "s", "t", "i", "o", "n", "N", "u", "m", "b", "e", "r", ":", " ",
       "/", "^", "(", "?", ":", "Q", "\\", ".", "?", "\\", "s", "*", ")", "?", "(", "\\",
       "d", "+", ")", "[", "\\", ".", ")", "]", "(", "?", ":", "\\", "s", "+", "(", ".",
       "*", ")", ")", "?", "$", "/", "i", "," >>

\* update_patterns.py line 7, the raw string literal (57 characters)
questionNumberNew ==
    <<
       "q", "u", "e", "s", "t", "i", "o", "n", "N", "u", "m", "b", "e", "r", ":", " ",
       "/", "^", "(", "?", ":", "Q", "\\", ".", "?", "\\", "s", "*", ")", "?", "(", "\\",
       "d", "+", ")", "[", "\\", ".", ":", ")", "]", "(", "?", ":", "\\", "s", "+", "(",
       ".", "*", ")", ")", "?", "$", "/", "i", "," >>

\* update_patterns.py line 12, the raw string literal (41 characters)
optionOld ==
    <<
       "o", "p", "t", "i", "o", "n", ":", " ", "/", "^", "\\", "s", "*", "(", "[", "A",
       "-", "D", "]", ")", "[", "\\", ".", "\\", ")", "\\", ":", "\\", "-", "\\", "s", "]",
       "+", "(", ".", "+", ")", "$", "/", "i", "," >>

\* update_patterns.py line 13, the raw string literal (44 characters)
optionNew ==
    <<
       "o", "p", "t", "i", "o", "n", ":", " ", "/", "^", "\\", "s", "*", "(", "[", "A",
       "-", "D", "0", "-", "9", "]", ")", "[", "\\", ".", "\\", ")", "\\", ":", "\\", "-",
       "\\", "s", "]", "+", "(", ".", "+", ")", "$", "/", "i", "," >>

\* update_patterns.py line 18, the raw string literal (77 characters)
answerOld ==
    <<
       "a", "n", "s", "w", "e", "r", ":", " ", "/", "^", "(", "?", ":", "A", "n", "s",
       "(", "?", ":", "w", "e", "r", ")", "?", "|", "C", "o", "r", "r", "e", "c", "t",
       "\\", "s", "+", "A", "n", "s", "w", "e", "r", "|", "K", "e", "y", "|", "S", "o",
       "l", "u", "t", "i", "o", "n", ")", "\\", "s", "*", "[", ":", "\\", "-", "]", "?",
       "\\", "s", "*", "(", "[", "A", "-", "D", "]", ")", "/", "i", "," >>

\* update_patterns.py line 19, the raw string literal (80 characters)
answerNew ==
    <<
       "a", "n", "s", "w", "e", "r", ":", " ", "/", "^", "(", "?", ":", "A", "n", "s",
       "(", "?", ":", "w", "e", "r", ")", "?", "|", "C", "o", "r", "r", "e", "c", "t",
       "\\", "s", "+", "A", "n", "s", "w", "e", "r", "|", "K", "e", "y", "|", "S", "o",
       "l", "u", "t", "i", "o", "n", ")", "\\", "s", "*", "[", ":", "\\", "-", "]", "?",
       "\\", "s", "*", "(", "[", "A", "-", "D", "0", "-", "9", "]", ")", "/", "i", "," >>

\* print('Updated all patterns')
Message == "Updated all patterns"

\* the three rules with the option rule written for the bare class range
RulesBareRange ==
    << [old |-> questionNumberOld, new |-> questionNumberNew],
       [old |-> << "A", "-", "D" >>,
        new |-> << "A", "-", "D", "0", "-", "9" >>],
       [old |-> answerOld,         new |-> answerNew] >>

\* the three (old, new) pairs, in the order the script applies them
Rules ==
    << [old |-> questionNumberOld, new |-> questionNumberNew],
       [old |-> optionOld,         new |-> optionNew],
       [old |-> answerOld,         new |-> answerNew] >>

RuleIds == 1..Len(Rules)

\* ------------------------------------------------------------------- state
VARIABLES
    file,       \* characters stored at the target path (<<>> while it does not exist)
    exists,     \* the target path exists
    readable,   \* the path can be opened for reading and its bytes decode as UTF-8
    writable,   \* the path can be opened for writing
    linesep,    \* os.linesep of the platform: <<LF>> or <<CR, LF>>
    content,    \* the script's variable `content`
    pc,         \* the statement the run is about to execute
    stdout,     \* lines the current run has printed
    runs,       \* runs started so far
    orig,       \* history: what the file held when the current run started
    prevOk,     \* history: the previous run ran to completion
    order,      \* SpecOrder only: the order the rules are applied in
    applied     \* SpecOrder only: how many rules have been applied

vars == << file, exists, readable, writable, linesep, content, pc, stdout,
           runs, orig, prevOk, order, applied >>

\* ------------------------------------------------------------- str.replace
\* old occurs in s starting at index i
MatchAt(s, i, old) ==
    /\ i + Len(old) - 1 <= Len(s)
    /\ \A k \in 1..Len(old) : s[i + k - 1] = old[k]

\* old occurs somewhere in s
Occurs(old, s) == \E i \in 1..Len(s) : MatchAt(s, i, old)

RECURSIVE ReplaceFrom(_, _, _, _)
\* s[i..] with every non-overlapping occurrence of old, found scanning from
\* the left, replaced by new: the text up to the leftmost occurrence at or
\* after i is kept, new is put in its place, and the scan goes on behind it
ReplaceFrom(s, i, old, new) ==
    LET hits == { j \in i..Len(s) : MatchAt(s, j, old) }
    IN  IF hits = { }
        THEN SubSeq(s, i, Len(s))
        ELSE LET j == CHOOSE h \in hits : \A g \in hits : h <= g
             IN  SubSeq(s, i, j - 1) \o new \o ReplaceFrom(s, j + Len(old), old, new)

\* s.replace(old, new, 1): the first occurrence only
ReplaceFirst(s, old, new) ==
    IF Occurs(old, s)
    THEN LET i == CHOOSE j \in 1..Len(s) :
                      MatchAt(s, j, old) /\ \A h \in 1..(j - 1) : ~MatchAt(s, h, old)
         IN  SubSeq(s, 1, i - 1) \o new \o SubSeq(s, i + Len(old), Len(s))
    ELSE s

\* s.replace(old, new) for a non-empty old
Replace(s, old, new) == ReplaceFrom(s, 1, old, new)

\* content.replace(old_i, new_i, 1): rule i with a count of one
ApplyRuleFirst(i, s) == ReplaceFirst(s, Rules[i].old, Rules[i].new)

\* content.replace(old_i, new_i), rule i of the script
ApplyRule(i, s) == Replace(s, Rules[i].old, Rules[i].new)

\* lines 5-20 as one function: the three replacements, each on the result
\* of the one before
UpdatePatterns(s) == ApplyRule(3, ApplyRule(2, ApplyRule(1, s)))

\* --------------------------------------------------- text-mode file access
\* open(path, 'r', encoding='utf-8').read(): newline=None, so "\r\n" and a
\* lone "\r" both reach the program as "\n"
Decode(bytes) == Replace(Replace(bytes, << CR, LF >>, << LF >>), << CR >>, << LF >>)

\* open(path, 'w', encoding='utf-8').write(text): newline=None, so every
\* "\n" is written as os.linesep
Encode(text, sep) == Replace(text, << LF >>, sep)

\* what a complete run stores for a file that held c
Rewritten(c, sep) == Encode(UpdatePatterns(Decode(c)), sep)

\* p is a prefix of s, and shorter
IsProperPrefix(p, s) == Len(p) < Len(s) /\ SubSeq(s, 1, Len(p)) = p

\* ----------------------------------------------------------- initial files
optionHead == SubSeq(optionOld, 1, 20)
optionTail == SubSeq(optionOld, 21, Len(optionOld))

Pieces ==
    { questionNumberOld, optionOld, answerOld, answerNew,
      optionHead, optionTail, << CR >>, << LF >>, << "x" >> }

RECURSIVE Flatten(_)
Flatten(ps) == IF ps = << >> THEN << >> ELSE Head(ps) \o Flatten(Tail(ps))

Contents == { Flatten(ps) : ps \in UNION { [1..n -> Pieces] : n \in 0..MaxPieces } }

LineSeps == { << LF >>, << CR, LF >> }

\* the orders three rules can be applied in
Orders == { o \in [RuleIds -> RuleIds] : \A i, j \in RuleIds : i # j => o[i] # o[j] }

Init ==
    /\ exists \in BOOLEAN
    /\ IF exists
       THEN file \in Contents /\ readable \in BOOLEAN /\ writable \in BOOLEAN
       ELSE file = << >> /\ readable = FALSE /\ writable = FALSE
    /\ linesep \in LineSeps
    /\ content = << >>
    /\ pc = "read"
    /\ stdout = << >>
    /\ runs = 1
    /\ orig = file
    /\ prevOk = FALSE
    /\ order = [i \in RuleIds |-> i]
    /\ applied = 0

env == << exists, readable, writable, linesep >>
hist == << runs, orig, prevOk, order, applied >>

\* ------------------------------------------------------------------ line 2
Read ==
    /\ pc = "read"
    /\ exists /\ readable
    /\ content' = Decode(file)
    /\ pc' = "replace_questionNumber"
    /\ UNCHANGED << file, env, stdout, hist >>

\* open(..., 'a+') instead: a missing file is created and read as empty
ReadFailCreates ==
    /\ pc = "read"
    /\ ~(exists /\ readable)
    /\ exists' = TRUE
    /\ content' = << >>
    /\ pc' = "replace_questionNumber"
    /\ UNCHANGED << file, readable, writable, linesep, stdout, hist >>

\* line 2 raises (FileNotFoundError, PermissionError or UnicodeDecodeError),
\* uncaught
ReadFail ==
    /\ pc = "read"
    /\ ~(exists /\ readable)
    /\ pc' = "failed"
    /\ UNCHANGED << file, env, content, stdout, hist >>

\* -------------------------------------------------------------- lines 5-20
ReplaceQuestionNumber ==
    /\ pc = "replace_questionNumber"
    /\ content' = ApplyRule(1, content)
    /\ pc' = "replace_option"
    /\ UNCHANGED << file, env, stdout, hist >>

ReplaceOption ==
    /\ pc = "replace_option"
    /\ content' = ApplyRule(2, content)
    /\ pc' = "replace_answer"
    /\ UNCHANGED << file, env, stdout, hist >>

ReplaceAnswer ==
    /\ pc = "replace_answer"
    /\ content' = ApplyRule(3, content)
    /\ pc' = "open_write"
    /\ UNCHANGED << file, env, stdout, hist >>

\* ----------------------------------------------------------------- line 23
\* open(..., 'a'): the file is not truncated
OpenForAppend ==
    /\ pc = "open_write"
    /\ writable
    /\ pc' = "write"
    /\ UNCHANGED << file, env, content, stdout, hist >>

\* open(..., 'w') succeeds: the file is created or truncated to nothing
OpenForWrite ==
    /\ pc = "open_write"
    /\ writable
    /\ file' = << >>
    /\ exists' = TRUE
    /\ pc' = "write"
    /\ UNCHANGED << readable, writable, linesep, content, stdout, hist >>

\* the error is swallowed and the script goes on to its last line
OpenForWriteFailIgnored ==
    /\ pc = "open_write"
    /\ ~writable
    /\ pc' = "print"
    /\ UNCHANGED << file, env, content, stdout, hist >>

\* the old file is removed before the new one is opened
OpenForWriteFailTruncates ==
    /\ pc = "open_write"
    /\ ~writable
    /\ file' = << >>
    /\ pc' = "failed"
    /\ UNCHANGED << env, content, stdout, hist >>

\* open(..., 'w') raises PermissionError, uncaught: nothing was touched
OpenForWriteFail ==
    /\ pc = "open_write"
    /\ ~writable
    /\ pc' = "failed"
    /\ UNCHANGED << file, env, content, stdout, hist >>

\* .write(content) and the close that ends the statement
Write ==
    /\ pc = "write"
    /\ file' = file \o Encode(content, linesep)
    /\ pc' = "print"
    /\ UNCHANGED << env, content, stdout, hist >>

\* .write(content) raises OSError part-way: a prefix has reached the file
WriteFail ==
    /\ pc = "write"
    /\ \E n \in 0..MaxPartial :
          /\ n < Len(Encode(content, linesep))
          /\ file' = file \o SubSeq(Encode(content, linesep), 1, n)
    /\ pc' = "failed"
    /\ UNCHANGED << env, content, stdout, hist >>

\* ----------------------------------------------------------------- line 24
PrintUpdated ==
    /\ pc = "print"
    /\ stdout' = Append(stdout, Message)
    /\ pc' = "done"
    /\ UNCHANGED << file, env, content, hist >>

\* ---------------------------------------------------------- the next run
\* the script is started again on the file the last run left
RunAgain ==
    /\ pc \in { "done", "failed" }
    /\ runs < MaxRuns
    /\ runs' = runs + 1
    /\ pc' = "read"
    /\ content' = << >>
    /\ stdout' = << >>
    /\ orig' = file
    /\ prevOk' = (pc = "done")
    /\ UNCHANGED << file, env, order, applied >>

Next ==
    \/ Read
    \/ ReadFail
    \/ ReplaceQuestionNumber
    \/ ReplaceOption
    \/ ReplaceAnswer
    \/ OpenForWrite
    \/ OpenForWriteFail
    \/ Write
    \/ WriteFail
    \/ PrintUpdated
    \/ RunAgain

Spec == Init /\ [][Next]_vars

\* ------------------------------------- the rules applied in another order
InitOrder ==
    /\ exists = FALSE /\ readable = FALSE /\ writable = FALSE
    /\ file = << >>
    /\ linesep = << LF >>
    /\ stdout = << >>
    /\ runs = 1
    /\ prevOk = FALSE
    /\ pc = "order"
    /\ orig \in Contents
    /\ content = orig
    /\ order \in Orders
    /\ applied = 0

ApplyNextInOrder ==
    /\ pc = "order"
    /\ applied < Len(Rules)
    /\ content' = ApplyRule(order[applied + 1], content)
    /\ applied' = applied + 1
    /\ UNCHANGED << file, env, pc, stdout, runs, orig, prevOk, order >>

NextOrder == ApplyNextInOrder

SpecOrder == InitOrder /\ [][NextOrder]_vars

\* --------------------------------------------------------------- properties
\* statements the run has reached once `content` holds the decoded file
HasRead ==
    pc \in { "replace_questionNumber", "replace_option", "replace_answer",
             "open_write", "write", "print", "done" }

\* the statement that applies rule i
RulePc(i) == << "replace_questionNumber", "replace_option", "replace_answer" >>[i]

\* statements reached after rule i has been applied in this run
AfterRule(i) ==
    CASE i = 1 -> { "replace_option", "replace_answer", "open_write", "write", "print", "done" }
      [] i = 2 -> { "replace_answer", "open_write", "write", "print", "done" }
      [] i = 3 -> { "open_write", "write", "print", "done" }

\* no old literal of any rule occurs in s
NoOldLiteral(s) == \A i \in RuleIds : ~Occurs(Rules[i].old, s)

\* s with every occurrence of a rule's literal, old or new, replaced by one
\* mark per rule: what is left is the text outside the patterns, in order
Masked(s) ==
    LET mark == << "<questionNumber>", "<option>", "<answer>" >>
        m(i, x) == Replace(Replace(x, Rules[i].old, << mark[i] >>),
                           Rules[i].new, << mark[i] >>)
    IN  m(3, m(2, m(1, s)))

\* C1: a completed run leaves the file holding exactly the three replacements
\* applied in sequence to the content the file held before the run.
FileIsRulesOfOriginal ==
    pc = "done" => file = UpdatePatterns(orig)

\* C2: applying the three rules in any of the six orders gives the same
\* content as the script's order questionNumber, option, answer.
OrderIndependent ==
    (pc = "order" /\ applied = Len(Rules)) => content = UpdatePatterns(orig)

\* an order that starts with the answer rule has been applied to a text that
\* holds an old option and an old answer pattern
OrderIndependentWitness ==
    /\ pc = "order" /\ applied = Len(Rules)
    /\ order[1] = 3
    /\ Occurs(optionOld, orig) /\ Occurs(answerOld, orig)
    /\ content # orig

\* C3: a second run right after a completed one finds no old literal in the
\* file, each of its three replacements leaves `content` as read, and it
\* leaves the file as the first run left it.
Idempotent ==
    prevOk =>
        /\ NoOldLiteral(orig)
        /\ HasRead => (content = Decode(orig) /\ NoOldLiteral(content))
        /\ pc = "done" => file = orig

\* the second of two completed runs is done, on a file the first had patched
IdempotentWitness ==
    /\ prevOk /\ pc = "done" /\ runs = 2
    /\ Occurs(optionNew, file) /\ Occurs(<< LF >>, file)

\* C4: when none of the three old literals occurs in the input, the file is
\* identical to the input after the run and the confirmation is printed.
UntouchedWhenNoOldLiteral ==
    (pc = "done" /\ NoOldLiteral(orig)) => (file = orig /\ stdout = << Message >>)

\* C5: when the path does not exist the run stops at the read, uncaught: the
\* later statements are never reached, no file appears and nothing is written.
MissingFileFailsAtRead ==
    /\ [](~exists => (pc \in { "read", "failed" } /\ file = << >> /\ stdout = << >>))
    /\ [][(~exists /\ pc = "read") => (pc' = "failed" /\ ~exists' /\ file' = file)]_vars

\* a run on a missing path has failed
MissingFileFailsAtReadWitness ==
    ~exists /\ pc = "failed" /\ content = << >> /\ stdout = << >>

\* C6: in every state the file holds either the original content or the
\* fully transformed content.
NoPartialState ==
    file = orig \/ file = Rewritten(orig, linesep)

\* C6, amended: the file holds the original content until line 23 opens it,
\* nothing once it is open, the transformed content once the write is
\* complete, and, after a failure, the original or a proper prefix of the
\* transformed content.
FileOriginalPrefixOrRewritten ==
    /\ pc \in { "read", "replace_questionNumber", "replace_option",
                "replace_answer", "open_write" } => file = orig
    /\ pc = "write" => file = << >>
    /\ pc \in { "print", "done" } => file = Rewritten(orig, linesep)
    /\ pc = "failed" => (file = orig \/ IsProperPrefix(file, Rewritten(orig, linesep)))

\* a write has failed and left the first character of the new content
FileOriginalPrefixOrRewrittenWitness ==
    /\ pc = "failed" /\ exists /\ readable /\ writable
    /\ Len(file) = 1
    /\ file # orig
    /\ IsProperPrefix(file, Rewritten(orig, linesep))

\* C7: the confirmation is printed exactly once by a run that completes, after
\* the transformed content has been written, and never by a run that has not
\* completed or has failed.
ConfirmationOnlyAfterWrite ==
    /\ pc = "done" => (stdout = << Message >> /\ file = Encode(content, linesep))
    /\ pc # "done" => stdout = << >>

\* a run that changed the file has printed its one line
ConfirmationOnlyAfterWriteWitness ==
    pc = "done" /\ stdout = << Message >> /\ file # orig /\ Occurs(answerNew, file)

\* C8: outside the occurrences of the three literals the file is unchanged by
\* a run: the same text, in the same order.
OnlyPatternsChange ==
    pc = "done" => Masked(file) = Masked(orig)

\* C9: once a rule has been applied its old literal occurs nowhere in
\* `content`, after the run none occurs in the file, and a rule whose old
\* literal is absent leaves `content` as it is.
EveryOccurrenceReplaced ==
    /\ [](\A i \in RuleIds : pc \in AfterRule(i) => ~Occurs(Rules[i].old, content))
    /\ [](pc = "done" => NoOldLiteral(file))
    /\ [][\A i \in RuleIds :
            (pc = RulePc(i) /\ ~Occurs(Rules[i].old, content)) => content' = content]_vars

\* a run is done on a file that held the old option pattern twice
EveryOccurrenceReplacedWitness ==
    /\ pc = "done"
    /\ orig = optionOld \o optionOld
    /\ file = optionNew \o optionNew

\* C10: when the file can be read but not opened for writing, the run fails
\* at line 23, uncaught, and the file is left as it was.
UnwritableLeavesFile ==
    /\ []((exists /\ readable /\ ~writable) =>
            (file = orig /\ stdout = << >> /\ pc \notin { "write", "print", "done" }))
    /\ [][(pc = "open_write" /\ ~writable) => (pc' = "failed" /\ file' = file)]_vars

\* the run has failed at line 23 with the patched text in memory only
UnwritableLeavesFileWitness ==
    /\ exists /\ readable /\ ~writable
    /\ pc = "failed"
    /\ file = orig
    /\ Occurs(optionOld, file) /\ Occurs(optionNew, content)

=============================================================================
